---- MODULE Spec2Model ----
(***************************************************************************)
(* StudioFlow (src/app.py): a Streamlit application whose feature pages    *)
(* call the Groq chat-completion API through call_groq.                    *)
(*                                                                         *)
(* Text is a sequence of tokens (a token is a run of characters that the   *)
(* program never looks inside).  A Python value that may be None is a      *)
(* record [none, s]: None is [none |-> TRUE], the string s is              *)
(* [none |-> FALSE, s |-> s].                                              *)
(*                                                                         *)
(* Two specifications:                                                     *)
(*   SpecDispatch  the AI engine (get_groq_client, call_groq and the four  *)
(*                 ai_* entry points) driven directly, with the credential *)
(*                 sources changing between calls; lastCall records what a *)
(*                 test double at the chat-completion endpoint observes.   *)
(*   Spec          the application: one action per script run of main().   *)
(***************************************************************************)
EXTENDS Integers, Sequences, FiniteSets, TLC

VARIABLES
    env,            \* os.environ["GROQ_API_KEY"] (after load_dotenv), or None
    secrets,        \* st.secrets["GROQ_API_KEY"], or None when the lookup raises
    session_state,  \* st.session_state: authenticated, user, projects, assets, comments
    choice,         \* the sidebar radio's value
    login_form,     \* the values last submitted through login_form
    view,           \* what the last script run of main() rendered
    lastCall,       \* the last call_groq invocation, as its caller and the endpoint saw it
    nCalls,         \* number of call_groq invocations so far
    outbound        \* number of chat-completion requests issued so far

vars == <<env, secrets, session_state, choice, login_form, view, lastCall, nCalls, outbound>>

\* ------------------------------------------------------------------ bounds

\* call_groq invocations explored in one behaviour
MaxCalls == 2
\* rows added to the session tables (projects, assets, comments) in one behaviour
MaxAdded == 1

\* ------------------------------------------------------------ Python values

None == [none |-> TRUE, s |-> <<>>]

Str(s) == [none |-> FALSE, s |-> s]

\* Python truthiness of an optional string: None and "" are falsy
Truthy(v) == ~v.none /\ v.s # <<>>

\* --------------------------------------------------------- configuration

MODEL_NAME == "llama-3.3-70b-versatile"

USERS ==
    [admin    |-> [password |-> "password", name |-> "System Admin", role |-> "Admin"],
     director |-> [password |-> "password", name |-> "Lead Director", role |-> "Director"],
     artist   |-> [password |-> "password", name |-> "Senior CGI Artist", role |-> "Artist"]]

\* ---------------------------------------------------------- text helpers

\* whitespace as str.strip() sees it
IsSpace(t) == t \in {" ", "\n"}

RECURSIVE LStrip(_)
LStrip(s) == IF s # <<>> /\ IsSpace(Head(s)) THEN LStrip(Tail(s)) ELSE s

RECURSIVE RStrip(_)
RStrip(s) ==
    IF s # <<>> /\ IsSpace(s[Len(s)]) THEN RStrip(SubSeq(s, 1, Len(s) - 1)) ELSE s

\* s.strip()
Strip(s) == RStrip(LStrip(s))

\* s.split(sep): the pieces between the separators, empty pieces included
RECURSIVE Split(_, _)
Split(s, sep) ==
    IF \E i \in 1..Len(s) : s[i] = sep
      THEN LET i == CHOOSE k \in 1..Len(s) : s[k] = sep /\ \A j \in 1..(k - 1) : s[j] # sep
           IN  <<SubSeq(s, 1, i - 1)>> \o Split(SubSeq(s, i + 1, Len(s)), sep)
      ELSE <<s>>

\* t.upper() on the file extensions used here
UpperToken(t) ==
    CASE t = "blend" -> "BLEND"
      [] t = "exr" -> "EXR"
      [] OTHER -> t

\* s.upper()
Upper(s) == [i \in 1..Len(s) |-> UpperToken(s[i])]

Digits == <<"0", "1", "2", "3", "4", "5", "6", "7", "8", "9">>

\* f"{n:03d}" for 0 <= n < 1000
Pad3(n) == <<Digits[((n \div 100) % 10) + 1], Digits[((n \div 10) % 10) + 1], Digits[(n % 10) + 1]>>

\* str(n) for n >= 0
RECURSIVE IntStr(_)
IntStr(n) == IF n < 10 THEN <<Digits[n + 1]>> ELSE IntStr(n \div 10) \o <<Digits[(n % 10) + 1]>>

\* str(row) of a project record (to_dict('records')[0])
DictStr(row) ==
    <<"{'id': '">> \o row.id \o <<"', 'name': '", row.name, "', 'stage': '", row.stage,
      "', 'budget': ">> \o IntStr(row.budget) \o <<", 'spent': ">> \o IntStr(row.spent)
      \o <<", 'deadline': '", row.deadline, "', 'status': '", row.status, "'}">>

\* ------------------------------------------------- response normaliser
\* The specification's Response Normalizer (section 4.4); app.py has no such step.

Marker == "</think>"

ContainsMarker(s) == \E i \in 1..Len(s) : s[i] = Marker

\* position of the last occurrence of the marker
LastMarker(s) == CHOOSE i \in 1..Len(s) : s[i] = Marker /\ \A j \in (i + 1)..Len(s) : s[j] # Marker

Normalize(s) == IF ContainsMarker(s) THEN Strip(SubSeq(s, LastMarker(s) + 1, Len(s))) ELSE s

\* ------------------------------------------------- credential resolution

\* Groq(api_key=k): the client object, which is always truthy
Groq(k) == [none |-> FALSE, api_key |-> k]

\* get_groq_client returning None
NoClient == [none |-> TRUE, api_key |-> <<>>]

\* mutant: a failed secrets lookup falls back to an empty key instead of None
get_groq_client_empty_key ==
    IF ~Truthy(env)
      THEN IF secrets.none THEN Groq(<<>>) ELSE Groq(secrets.s)
      ELSE Groq(env.s)

\* mutant: the secrets store is consulted before the environment
get_groq_client_secrets_first ==
    IF ~secrets.none THEN Groq(secrets.s)
    ELSE IF Truthy(env) THEN Groq(env.s) ELSE NoClient

\* mutant: the key of an earlier request is reused instead of being resolved again
get_groq_client_cached ==
    IF lastCall.sent # <<>>
      THEN Groq(lastCall.sent[1].api_key)
      ELSE IF ~Truthy(env)
             THEN IF secrets.none THEN NoClient ELSE Groq(secrets.s)
             ELSE Groq(env.s)

get_groq_client ==
    LET api_key == env                                 \* os.getenv("GROQ_API_KEY")
    IN  IF ~Truthy(api_key)                            \* if not api_key:
          THEN IF secrets.none
                 THEN NoClient                         \* except: return None
                 ELSE Groq(secrets.s)                  \* api_key = st.secrets[...]
          ELSE Groq(api_key.s)

\* ------------------------------------------------------------- call_groq

MissingKeyMsg ==
    <<"Error: GROQ_API_KEY not found in environment variables or Streamlit secrets.">>

\* str(e) of the IndexError raised by completion.choices[0] on an empty list
IndexErrorText == <<"list index out of range">>

\* str(e) of the AttributeError raised by .content on a choice without a message
AttributeErrorText == <<"'NoneType' object has no attribute 'content'">>

\* the messages argument built at lines 69-72
Messages(system_prompt, user_prompt) ==
    <<[role |-> "system", content |-> system_prompt],
      [role |-> "user", content |-> user_prompt]>>

\* the request client.chat.completions.create sends, with the client's key
Request(client, system_prompt, user_prompt) ==
    [api_key |-> client.api_key,
     model |-> MODEL_NAME,
     messages |-> Messages(system_prompt, user_prompt),
     temperature |-> "0.7",
     max_tokens |-> 1024]

\* mutant: the error names the provider
ApiError_provider(detail) == Str(<<"Groq API Error: ">> \o detail)

\* f"API Error: {str(e)}"
ApiError(detail) == Str(<<"API Error: ">> \o detail)

\* mutant: the last choice is read instead of the first
FirstChoice_last(choices) == choices[Len(choices)]

\* completion.choices[0]
FirstChoice(choices) == choices[1]

\* What one call does: the value returned, the requests sent, and the session
\* state and credential sources as the call leaves them.
Effect(ret, sent) ==
    [ret |-> ret, sent |-> sent, session |-> session_state, env |-> env, secrets |-> secrets]

\* mutant: a failed request is sent a second time
call_groq_retry(system_prompt, user_prompt, outcome) ==
    LET client == get_groq_client
        request == Request(client, system_prompt, user_prompt)
    IN  IF client.none THEN Effect(Str(MissingKeyMsg), <<>>)
        ELSE IF outcome.raises
               THEN Effect(ApiError(outcome.detail), <<request, request>>)
        ELSE IF outcome.choices = <<>> THEN Effect(ApiError(IndexErrorText), <<request>>)
        ELSE IF ~FirstChoice(outcome.choices).hasMessage
               THEN Effect(ApiError(AttributeErrorText), <<request>>)
        ELSE Effect(FirstChoice(outcome.choices).content, <<request>>)

\* mutant: the exchange is remembered in the session and replayed in later requests
call_groq_memory(system_prompt, user_prompt, outcome) ==
    LET client == get_groq_client
        turn == [project |-> "", author |-> "user", text |-> user_prompt, time |-> ""]
        request == [Request(client, system_prompt, user_prompt) EXCEPT
                      !.messages = @ \o [i \in 1..(Len(session_state.comments) - 1) |->
                                           [role |-> "user",
                                            content |-> session_state.comments[i + 1].text]]]
        kept == [ret |-> None, sent |-> <<request>>,
                 session |-> [session_state EXCEPT !.comments = Append(@, turn)],
                 env |-> env, secrets |-> secrets]
    IN  IF client.none THEN Effect(Str(MissingKeyMsg), <<>>)
        ELSE IF outcome.raises THEN [kept EXCEPT !.ret = ApiError(outcome.detail)]
        ELSE IF outcome.choices = <<>> THEN [kept EXCEPT !.ret = ApiError(IndexErrorText)]
        ELSE IF ~FirstChoice(outcome.choices).hasMessage
               THEN [kept EXCEPT !.ret = ApiError(AttributeErrorText)]
        ELSE [kept EXCEPT !.ret = FirstChoice(outcome.choices).content]

\* mutant: the completion is passed through the response normaliser
call_groq_normalized(system_prompt, user_prompt, outcome) ==
    LET client == get_groq_client
        request == Request(client, system_prompt, user_prompt)
    IN  IF client.none THEN Effect(Str(MissingKeyMsg), <<>>)
        ELSE IF outcome.raises THEN Effect(ApiError(outcome.detail), <<request>>)
        ELSE IF outcome.choices = <<>> THEN Effect(ApiError(IndexErrorText), <<request>>)
        ELSE IF ~FirstChoice(outcome.choices).hasMessage
               THEN Effect(ApiError(AttributeErrorText), <<request>>)
        ELSE IF FirstChoice(outcome.choices).content.none THEN Effect(None, <<request>>)
        ELSE Effect(Str(Normalize(FirstChoice(outcome.choices).content.s)), <<request>>)

\* outcome is what the endpoint does with the request: it raises (transport or
\* HTTP failure, detail = str(e)) or answers with a list of choices.
call_groq(system_prompt, user_prompt, outcome) ==
    LET client == get_groq_client
        request == Request(client, system_prompt, user_prompt)
    IN  IF client.none                                  \* if not client:
          THEN Effect(Str(MissingKeyMsg), <<>>)
        ELSE IF outcome.raises                          \* create(...) raises
               THEN Effect(ApiError(outcome.detail), <<request>>)
        ELSE IF outcome.choices = <<>>                  \* choices[0]: IndexError
               THEN Effect(ApiError(IndexErrorText), <<request>>)
        ELSE IF ~FirstChoice(outcome.choices).hasMessage \* .message.content: AttributeError
               THEN Effect(ApiError(AttributeErrorText), <<request>>)
        ELSE Effect(FirstChoice(outcome.choices).content, <<request>>)

\* ------------------------------------------------------- ai_* entry points

StoryboardSys == <<"You are a master cinematic storyboard artist. ...">>

SceneSys == <<"You are a Senior VFX Supervisor. ...">>

AutoTagSys == <<"You are an AI pipeline assistant. ...">>

OptimizeSys == <<"You are an Executive Producer AI. ...">>

StoryboardPrompt(script) == <<"Script:\n">> \o script

ScenePrompt(scene_desc) == <<"Scene Description:\n">> \o scene_desc

AutoTagPrompt(asset_name, asset_desc) ==
    <<"File: ">> \o asset_name \o <<"\nDescription: ">> \o asset_desc

OptimizePrompt(project_data) == <<"Project Data:\n">> \o project_data

ai_generate_storyboard(script, outcome) ==
    call_groq(StoryboardSys, StoryboardPrompt(script), outcome)

ai_analyze_scene(scene_desc, outcome) ==
    call_groq(SceneSys, ScenePrompt(scene_desc), outcome)

ai_auto_tag_assets(asset_name, asset_desc, outcome) ==
    call_groq(AutoTagSys, AutoTagPrompt(asset_name, asset_desc), outcome)

ai_optimize_production(project_data, outcome) ==
    call_groq(OptimizeSys, OptimizePrompt(project_data), outcome)

\* --------------------------------------------------------- session state

\* A deadline is the token of its strftime("%Y-%m-%d") text, written relative to
\* the day the session started ("D+5" is the date five days later).
InitProjects ==
    <<[id |-> <<"PRJ-", "0", "0", "1">>, name |-> "QLED PRO V8 Launch",
       stage |-> "Post-production", budget |-> 150000, spent |-> 142000,
       deadline |-> "D+5", status |-> "Delayed"],
      [id |-> <<"PRJ-", "0", "0", "2">>, name |-> "i5 Pro CGI Commercial",
       stage |-> "Production", budget |-> 85000, spent |-> 40000,
       deadline |-> "D+30", status |-> "On Track"],
      [id |-> <<"PRJ-", "0", "0", "3">>, name |-> "Peptiva Rx Visuals",
       stage |-> "Delivery", budget |-> 1600, spent |-> 1600,
       deadline |-> "D-2", status |-> "Completed"]>>

InitAssets ==
    <<[name |-> <<"i5_pro_exploded_view_v3", ".", "blend">>, type |-> <<"3D Model">>,
       tags |-> <<<<"CGI">>, <<"Technical">>, <<"Approved">>>>, version |-> 3],
      [name |-> <<"qled_screen_shader_v1", ".", "nodes">>, type |-> <<"Shader">>,
       tags |-> <<<<"Cycles">>, <<"WIP">>>>, version |-> 1]>>

InitComments ==
    <<[project |-> "QLED PRO V8 Launch", author |-> "Lead Director",
       text |-> <<"Need to fix the geometry nodes on the particle sim.">>,
       time |-> "10:30 AM"]>>

\* session_state["user"] before any login, and after logout
UserAbsent == [kind |-> "absent"]

UserNone == [kind |-> "None"]

\* st.session_state after init_mock_data has run once
InitSession ==
    [authenticated |-> "absent", user |-> UserAbsent,
     projects |-> InitProjects, assets |-> InitAssets, comments |-> InitComments]

\* st.session_state.get("authenticated", False)
check_auth == session_state.authenticated = "True"

\* -------------------------------------------------------------- inputs

EnvValues == {None, Str(<<>>), Str(<<"gsk_env">>)}

SecretValues == {None, Str(<<>>), Str(<<"gsk_sec">>)}

Scripts == {<<>>, <<"INT. STUDIO - NIGHT">>}

Scenes == {<<>>, <<"8M polys, volumetric fog">>}

Files == {<<"hero_ship", ".", "blend">>}

Descs == {<<"Hero asset">>}

TagsText == <<"CGI", ",", " ", "Hero", " ">>

ThinkText == <<"<thinking>", "...", "</think>", "Final answer here">>

TwoMarkText == <<"a", "</think>", " ", "b", "</think>", "\n", "c", " ">>

Contents == {<<>>, TagsText, ThinkText, TwoMarkText}

\* one element of completion.choices
Message(content) == [hasMessage |-> TRUE, content |-> content]

NoMessage == [hasMessage |-> FALSE, content |-> None]

Raises(detail) == [raises |-> TRUE, detail |-> detail, choices |-> <<>>]

Response(choices) == [raises |-> FALSE, detail |-> <<>>, choices |-> choices]

\* what the endpoint may do with a request
Outcomes ==
    {Raises(<<"Connection error.">>), Raises(<<"Error code: 401">>)}
    \cup {Response(<<>>), Response(<<NoMessage>>), Response(<<Message(None)>>)}
    \cup {Response(<<Message(Str(c))>>) : c \in Contents}
    \cup {Response(<<Message(Str(TagsText)), Message(Str(ThinkText))>>)}

\* lastCall before any call, and the reply slot of a call that sent nothing
NoReply == [raises |-> FALSE, detail |-> <<>>, choices |-> <<>>]

NoCall ==
    [made |-> FALSE, env |-> None, secrets |-> None,
     system_prompt |-> <<>>, user_prompt |-> <<>>,
     sent |-> <<>>, replied |-> FALSE, outcome |-> NoReply, ret |-> None]

\* ----------------------------------------------------------- AI engine

\* One invocation of an entry point with effect r, observed by the caller (ret)
\* and by the endpoint (sent, and the outcome it answered with).
Invoke(system_prompt, user_prompt, outcome, r) ==
    /\ nCalls < MaxCalls
    /\ lastCall' = [made |-> TRUE, env |-> env, secrets |-> secrets,
                    system_prompt |-> system_prompt, user_prompt |-> user_prompt,
                    sent |-> r.sent, replied |-> r.sent # <<>>,
                    outcome |-> IF r.sent # <<>> THEN outcome ELSE NoReply,
                    ret |-> r.ret]
    /\ session_state' = r.session
    /\ env' = r.env
    /\ secrets' = r.secrets
    /\ nCalls' = nCalls + 1
    /\ outbound' = outbound + Len(r.sent)
    /\ UNCHANGED <<choice, login_form, view>>

GenerateStoryboard ==
    \E script \in Scripts, outcome \in Outcomes :
        Invoke(StoryboardSys, StoryboardPrompt(script), outcome,
               ai_generate_storyboard(script, outcome))

AnalyzeScene ==
    \E scene \in Scenes, outcome \in Outcomes :
        Invoke(SceneSys, ScenePrompt(scene), outcome, ai_analyze_scene(scene, outcome))

AutoTagAssets ==
    \E file \in Files, desc \in Descs, outcome \in Outcomes :
        Invoke(AutoTagSys, AutoTagPrompt(file, desc), outcome,
               ai_auto_tag_assets(file, desc, outcome))

OptimizeProduction ==
    \E i \in 1..Len(session_state.projects), outcome \in Outcomes :
        LET data == DictStr(session_state.projects[i])
        IN  Invoke(OptimizeSys, OptimizePrompt(data), outcome,
                   ai_optimize_production(data, outcome))

\* the environment variable is set, emptied or removed between calls
SetEnv ==
    \E v \in EnvValues :
        /\ v # env
        /\ env' = v
        /\ UNCHANGED <<secrets, session_state, choice, login_form, view, lastCall, nCalls, outbound>>

\* the secrets store gains, loses or changes the key between calls
SetSecret ==
    \E v \in SecretValues :
        /\ v # secrets
        /\ secrets' = v
        /\ UNCHANGED <<env, session_state, choice, login_form, view, lastCall, nCalls, outbound>>

\* a session in which the feature pages, the callers of the AI engine, are reachable
SignedIn(u) == [InitSession EXCEPT !.authenticated = "True", !.user = USERS[u]]

InitDispatch ==
    /\ env \in EnvValues
    /\ secrets \in SecretValues
    /\ session_state \in {SignedIn(u) : u \in {"director", "artist"}}
    /\ choice = "AI Creative Tools"
    /\ login_form = [username |-> "", password |-> ""]
    /\ view = "AI Creative Tools"
    /\ lastCall = NoCall
    /\ nCalls = 0
    /\ outbound = 0

NextDispatch ==
    \/ GenerateStoryboard
    \/ AnalyzeScene
    \/ AutoTagAssets
    \/ OptimizeProduction
    \/ SetEnv
    \/ SetSecret

SpecDispatch == InitDispatch /\ [][NextDispatch]_vars

\* --------------------------------------------------------- application

Menu ==
    <<"Executive Dashboard", "Projects", "Asset Management", "AI Creative Tools",
      "Collaboration", "Analytics">>

\* st.radio's value when the widget is first rendered: the first menu entry
DefaultChoice == Menu[1]

\* what login_ui renders: the form, or the form with "Invalid credentials."
LoginViews == {"login_ui", "login_ui: Invalid credentials."}

Usernames == {"admin", "director", "artist", "guest"}

Passwords == {"password", "letmein"}

Stages == {"Pre-production", "Delivery"}

NewProjectNames == {"Teaser"}

Notes == {<<"Shot 12 approved.">>}

Times == {"04:15 PM"}

\* rows added to the three session tables since the session started
Added ==
    (Len(session_state.projects) - Len(InitProjects))
    + (Len(session_state.assets) - Len(InitAssets))
    + (Len(session_state.comments) - Len(InitComments))

\* mutant: the password is not compared
LoginSubmit_any_password(username, password) ==
    /\ ~check_auth
    /\ login_form' = [username |-> username, password |-> password]
    /\ IF username \in DOMAIN USERS
         THEN /\ session_state' = [session_state EXCEPT !.authenticated = "True",
                                                        !.user = USERS[username]]
              /\ view' = DefaultChoice
         ELSE /\ view' = "login_ui: Invalid credentials."
              /\ UNCHANGED session_state
    /\ choice' = DefaultChoice
    /\ UNCHANGED <<env, secrets, lastCall, nCalls, outbound>>

\* main() while not authenticated: login_ui with the form submitted
LoginSubmit(username, password) ==
    /\ ~check_auth                                      \* main: if not check_auth()
    /\ login_form' = [username |-> username, password |-> password]
    /\ IF username \in DOMAIN USERS /\ USERS[username].password = password
         THEN /\ session_state' = [session_state EXCEPT !.authenticated = "True",
                                                        !.user = USERS[username]]
              /\ view' = DefaultChoice                  \* st.rerun(): main renders the page
         ELSE /\ view' = "login_ui: Invalid credentials."
              /\ UNCHANGED session_state
    /\ choice' = DefaultChoice
    /\ UNCHANGED <<env, secrets, lastCall, nCalls, outbound>>

\* the sidebar's Logout button
Logout ==
    /\ check_auth
    /\ session_state' = [session_state EXCEPT !.authenticated = "False", !.user = UserNone]
    /\ view' = "login_ui"                               \* st.rerun(): main renders login_ui
    /\ choice' = DefaultChoice                          \* the radio is not rendered: its value is dropped
    /\ UNCHANGED <<env, secrets, login_form, lastCall, nCalls, outbound>>

\* the sidebar radio: main routes to the chosen page
Navigate(c) ==
    /\ check_auth
    /\ choice' = c
    /\ view' = c
    /\ UNCHANGED <<env, secrets, session_state, login_form, lastCall, nCalls, outbound>>

\* render_projects: "Initialize Project"
CreateProject(name, stage, budget, deadline) ==
    /\ check_auth /\ choice = "Projects"
    /\ Added < MaxAdded
    /\ LET new_row == [id |-> <<"PRJ-">> \o Pad3(Len(session_state.projects) + 1),
                       name |-> name, stage |-> stage, budget |-> budget, spent |-> 0,
                       deadline |-> deadline, status |-> "On Track"]
       IN  session_state' = [session_state EXCEPT !.projects = Append(@, new_row)]
    /\ view' = "Projects"
    /\ UNCHANGED <<env, secrets, choice, login_form, lastCall, nCalls, outbound>>

\* A feature page calling an ai_* entry point with effect r: the call's own
\* effects, before the page does anything with the result.
PageCall(r) ==
    /\ nCalls < MaxCalls
    /\ env' = r.env
    /\ secrets' = r.secrets
    /\ nCalls' = nCalls + 1
    /\ outbound' = outbound + Len(r.sent)
    /\ UNCHANGED <<choice, login_form, lastCall>>

\* render_assets: "Process & Auto-Tag" with a file uploaded
ProcessAutoTag(file, desc, outcome) ==
    /\ check_auth /\ choice = "Asset Management"
    /\ Added < MaxAdded
    /\ LET r == ai_auto_tag_assets(file, desc, outcome)
           pieces == Split(r.ret.s, ",")
           new_asset == [name |-> file,
                         type |-> Upper(Split(file, ".")[Len(Split(file, "."))]),
                         tags |-> [i \in 1..Len(pieces) |-> Strip(pieces[i])],
                         version |-> 1]
       IN  /\ PageCall(r)
           /\ IF r.ret.none
                THEN /\ session_state' = r.session      \* tags.split: AttributeError
                     /\ view' = "Asset Management: exception"
                ELSE /\ session_state' = [r.session EXCEPT !.assets = Append(@, new_asset)]
                     /\ view' = "Asset Management"

\* render_ai_tools, tab1: "Generate Storyboard Breakdown"
StoryboardButton(script, outcome) ==
    /\ check_auth /\ choice = "AI Creative Tools"
    /\ view' = "AI Creative Tools"
    /\ IF script # <<>>
         THEN LET r == ai_generate_storyboard(script, outcome)
              IN  PageCall(r) /\ session_state' = r.session
         ELSE UNCHANGED <<env, secrets, session_state, choice, login_form,
                          lastCall, nCalls, outbound>>  \* st.warning

\* render_ai_tools, tab2: "Analyze Scene Risks"
SceneButton(scene, outcome) ==
    /\ check_auth /\ choice = "AI Creative Tools"
    /\ view' = "AI Creative Tools"
    /\ IF scene # <<>>
         THEN LET r == ai_analyze_scene(scene, outcome)
              IN  PageCall(r) /\ session_state' = r.session
         ELSE UNCHANGED <<env, secrets, session_state, choice, login_form,
                          lastCall, nCalls, outbound>>

\* render_ai_tools, tab3: "Run Executive Audit" on the project selected by name
AuditButton(selected_proj, outcome) ==
    /\ check_auth /\ choice = "AI Creative Tools"
    /\ view' = "AI Creative Tools"
    /\ LET rows == SelectSeq(session_state.projects, LAMBDA row : row.name = selected_proj)
           r == ai_optimize_production(DictStr(rows[1]), outcome)
       IN  PageCall(r) /\ session_state' = r.session

\* render_collaboration: a note entered in the chat input
AddComment(selected_proj, new_comment, now) ==
    /\ check_auth /\ choice = "Collaboration"
    /\ Added < MaxAdded
    /\ session_state' =
         [session_state EXCEPT !.comments =
            Append(@, [project |-> selected_proj, author |-> session_state.user.role,
                       text |-> new_comment, time |-> now])]
    /\ view' = "Collaboration"
    /\ UNCHANGED <<env, secrets, choice, login_form, lastCall, nCalls, outbound>>

\* the project names offered by the select boxes
ProjectNames == {session_state.projects[i].name : i \in 1..Len(session_state.projects)}

\* the process as started: any configuration of the credential sources, and the
\* first script run of main() done (mock data initialised, login form shown)
Init ==
    /\ env \in EnvValues
    /\ secrets \in SecretValues
    /\ session_state = InitSession
    /\ choice = DefaultChoice
    /\ login_form = [username |-> "", password |-> ""]
    /\ view = "login_ui"
    /\ lastCall = NoCall
    /\ nCalls = 0
    /\ outbound = 0

Next ==
    \/ \E u \in Usernames, p \in Passwords : LoginSubmit(u, p)
    \/ Logout
    \/ \E i \in 1..Len(Menu) : Navigate(Menu[i])
    \/ \E n \in NewProjectNames, s \in Stages : CreateProject(n, s, 20000, "D+14")
    \/ \E f \in Files, d \in Descs, o \in Outcomes : ProcessAutoTag(f, d, o)
    \/ \E s \in Scripts, o \in Outcomes : StoryboardButton(s, o)
    \/ \E s \in Scenes, o \in Outcomes : SceneButton(s, o)
    \/ \E n \in ProjectNames, o \in Outcomes : AuditButton(n, o)
    \/ \E n \in ProjectNames, c \in Notes, t \in Times : AddComment(n, c, t)
    \/ SetEnv
    \/ SetSecret

Spec == Init /\ [][Next]_vars

\* ------------------------------------------------------------- claims
\* C1-C9 are stated over lastCall and checked under SpecDispatch; C10 is stated
\* over the session and checked under Spec.

\* the credential sources as the last call found them
CallMissing == ~Truthy(lastCall.env) /\ lastCall.secrets.none

\* the last call sent a request and the endpoint answered with a completion
\* whose first choice carries text
CallSucceeded ==
    /\ lastCall.made /\ lastCall.replied
    /\ ~lastCall.outcome.raises
    /\ lastCall.outcome.choices # <<>>
    /\ lastCall.outcome.choices[1].hasMessage
    /\ ~lastCall.outcome.choices[1].content.none

\* the last call's request raised: at create, or on reading choices[0].message.content
CallRaised ==
    /\ lastCall.made /\ lastCall.replied
    /\ \/ lastCall.outcome.raises
       \/ lastCall.outcome.choices = <<>>
       \/ ~lastCall.outcome.choices[1].hasMessage

\* the first choice of the last call's completion has a message whose content is null
CallNullContent ==
    /\ lastCall.made /\ lastCall.replied
    /\ ~lastCall.outcome.raises
    /\ lastCall.outcome.choices # <<>>
    /\ lastCall.outcome.choices[1].hasMessage
    /\ lastCall.outcome.choices[1].content.none

\* str(e) of the exception the last call caught
CaughtText ==
    IF lastCall.outcome.raises THEN lastCall.outcome.detail
    ELSE IF lastCall.outcome.choices = <<>> THEN IndexErrorText
    ELSE AttributeErrorText

\* C1: a call made while GROQ_API_KEY is absent from the environment and from the
\* secrets store returns the missing-key error string and sends no request.
C1_MissingKeyShortCircuits ==
    (lastCall.made /\ lastCall.env.none /\ lastCall.secrets.none)
        => /\ lastCall.ret = Str(MissingKeyMsg)
           /\ Len(lastCall.sent) = 0

C1_Witness ==
    /\ lastCall.made /\ lastCall.env.none /\ lastCall.secrets.none
    /\ lastCall.ret = Str(MissingKeyMsg)
    /\ nCalls = 1 /\ outbound = 0

\* C2 as claimed: the environment value is used whenever it is present (set, even
\* to the empty string); the secrets store decides only when it is absent; None
\* is signalled when both are absent.
C2_AsClaimed ==
    lastCall.made =>
        /\ ~lastCall.env.none
              => Len(lastCall.sent) = 1 /\ lastCall.sent[1].api_key = lastCall.env.s
        /\ (lastCall.env.none /\ ~lastCall.secrets.none)
              => Len(lastCall.sent) = 1 /\ lastCall.sent[1].api_key = lastCall.secrets.s
        /\ (lastCall.env.none /\ lastCall.secrets.none)
              => lastCall.sent = <<>> /\ lastCall.ret = Str(MissingKeyMsg)

\* C2 (amended): the environment value is the key whenever it is present and
\* non-empty; otherwise the secrets-store value is the key when the store has one;
\* otherwise the client is None (the call reports the missing key, sends nothing).
C2_ResolutionOrder ==
    lastCall.made =>
        IF Truthy(lastCall.env)
          THEN Len(lastCall.sent) = 1 /\ lastCall.sent[1].api_key = lastCall.env.s
        ELSE IF ~lastCall.secrets.none
          THEN Len(lastCall.sent) = 1 /\ lastCall.sent[1].api_key = lastCall.secrets.s
        ELSE lastCall.sent = <<>> /\ lastCall.ret = Str(MissingKeyMsg)

C2_Witness ==
    /\ lastCall.made
    /\ Truthy(lastCall.env) /\ Truthy(lastCall.secrets)
    /\ Len(lastCall.sent) = 1 /\ lastCall.sent[1].api_key = lastCall.env.s

\* C3 as claimed: a call with a resolved credential returns a non-empty string (a
\* completion or an error string), whatever the endpoint does.
C3_AsClaimed ==
    (lastCall.made /\ Len(lastCall.sent) = 1 /\ lastCall.sent[1].api_key # <<>>)
        => ~lastCall.ret.none /\ lastCall.ret.s # <<>>

C5_OneRequest ==
    lastCall.made =>
        /\ Len(lastCall.sent) <= 1
        /\ ~CallMissing => Len(lastCall.sent) = 1
        /\ \A i \in 1..Len(lastCall.sent) : lastCall.sent[i].model = MODEL_NAME

C5_Witness ==
    /\ lastCall.made /\ lastCall.replied /\ lastCall.outcome.raises
    /\ Len(lastCall.sent) = 1
    /\ outbound = nCalls

\* C6: on success the call returns the first choice's text unchanged, whatever
\* the other choices hold.
C6_FirstChoiceVerbatim ==
    CallSucceeded => lastCall.ret = lastCall.outcome.choices[1].content

C6_Witness ==
    /\ CallSucceeded
    /\ Len(lastCall.outcome.choices) = 2
    /\ lastCall.outcome.choices[2].content # lastCall.outcome.choices[1].content
    /\ lastCall.ret = Str(TagsText)

C8_ResolvedAtCallTime ==
    [][nCalls' = nCalls + 1 =>
         IF Truthy(env)
           THEN Len(lastCall'.sent) = 1 /\ lastCall'.sent[1].api_key = env.s
         ELSE IF ~secrets.none
           THEN Len(lastCall'.sent) = 1 /\ lastCall'.sent[1].api_key = secrets.s
         ELSE lastCall'.sent = <<>> /\ lastCall'.ret = Str(MissingKeyMsg)]_vars

C8_Witness ==
    /\ nCalls = 2 /\ outbound = 1
    /\ lastCall.made /\ lastCall.sent = <<>>
    /\ lastCall.ret = Str(MissingKeyMsg)

\* C9: a call leaves the session state and the credential sources as they were,
\* and a request it sends carries exactly the system message then the user
\* message built from its two arguments.
C9_Stateless ==
    [][nCalls' = nCalls + 1 =>
         /\ session_state' = session_state
         /\ env' = env
         /\ secrets' = secrets
         /\ \A i \in 1..Len(lastCall'.sent) :
                lastCall'.sent[i].messages =
                    <<[role |-> "system", content |-> lastCall'.system_prompt],
                      [role |-> "user", content |-> lastCall'.user_prompt]>>]_vars

C9_Witness ==
    /\ nCalls = 2 /\ outbound = 2
    /\ lastCall.made /\ Len(lastCall.sent) = 1
    /\ Len(lastCall.sent[1].messages) = 2
    /\ session_state \in {SignedIn(u) : u \in DOMAIN USERS}

\* the submitted pair names a user of USERS with that user's password
Matches(form) ==
    form.username \in DOMAIN USERS /\ USERS[form.username].password = form.password

\* C10: authenticated is True only with user the USERS record of the username
\* whose password was submitted; a failed login changes neither field; logout
\* sets authenticated False and user None; and a script run that starts
\* unauthenticated renders only the login form, adds no project, asset or
\* comment and makes no AI call.
C10_AuthGate ==
    /\ [](check_auth => /\ Matches(login_form)
                        /\ session_state.user = USERS[login_form.username])
    /\ [][/\ (~check_auth /\ ~Matches(login_form'))
                => /\ session_state'.authenticated = session_state.authenticated
                   /\ session_state'.user = session_state.user
          /\ (check_auth /\ ~check_auth')
                => /\ session_state'.authenticated = "False"
                   /\ session_state'.user = UserNone
                   /\ view' = "login_ui"
          /\ ~check_auth
                => /\ view' \in LoginViews \/ check_auth'
                   /\ session_state'.projects = session_state.projects
                   /\ session_state'.assets = session_state.assets
                   /\ session_state'.comments = session_state.comments
                   /\ nCalls' = nCalls
                   /\ outbound' = outbound]_vars

C10_Witness ==
    /\ session_state.authenticated = "False" /\ session_state.user = UserNone
    /\ view = "login_ui: Invalid credentials."
    /\ ~Matches(login_form)
    /\ nCalls >= 1 /\ Added >= 1

====
